---- MODULE Spec2Model ----
(***************************************************************************)
(* Device connection, command, ingestion and broadcast layers of the       *)
(* ZKTeco attendance server.                                               *)
(*                                                                         *)
(* The model follows server/services/ZKTecoService.ts (device map,         *)
(* connection map, socket handlers, reconnect timer, sendCommand, the      *)
(* parser and the attendance table), server/services/RealtimeService.ts    *)
(* (client set, broadcast, monitor), the start-up sequence and the         *)
(* attendanceRecord listener of server/index.ts and the HTTP handlers of   *)
(* server/controllers/DeviceController.ts that call the service.           *)
(*                                                                         *)
(* Node.js runs every callback to completion, so one action is one         *)
(* callback: an HTTP handler, a socket event handler or a timer.  A timer  *)
(* that is pending may fire at any later step, and the 'close' event of a  *)
(* destroyed socket is delivered at any later step.  The clock only stamps *)
(* attendance events.                                                      *)
(***************************************************************************)
EXTENDS Integers, Sequences, FiniteSets, TLC

\* ------------------------------------------------------------------ bounds
MaxSockets == 4
MaxCmds == 2
MaxFrames == 2
MaxTime == 2
MaxClients == 2
MaxPubs == 2
MaxUpdates == 1

\* --------------------------------------------------------------- constants
\* the configured devices of initialize(), in the order they are added
defaultDevices == <<"ZK001", "MB2000">>
\* an id that is only ever added through POST /api/devices
DeviceIds == {"ZK001", "MB2000", "ZK002"}
\* byte lengths of an inbound chunk: below and at the 8 byte header size
HeaderLen == 8
FrameLens == {4, 8}
\* the user id the parser reports for every notification
MockUserId == "12345"
\* browser connections accepted by the WebSocket server
ClientIds == 1..MaxClients

VARIABLES
    phase,        \* "init": startServer not yet past initialize(); "running"; "exited"
    initNext,     \* index into defaultDevices of the next device initialize() adds
    initSock,     \* socket whose connect promise initialize() awaits, 0 if none
    devices,      \* ZKTecoService.devices: the registered device ids
    isConnected,  \* ZKDevice.isConnected of every device
    connections,  \* ZKTecoService.connections: device id -> socket id, 0 if absent
    sock,         \* every net.Socket created by connectToDevice, in creation order
    cmds,         \* every sendCommand call, in call order
    answered,     \* commands whose response chunk the device has delivered
    nframes,      \* inbound chunks handled so far
    attendance,   \* 'attendanceRecord' events emitted by handleDeviceData
    sinceDrop,    \* per device: -1 before any unexpected loss, else the number of
                  \* deviceConnected events emitted since the last one
    now,          \* the wall clock, in ticks of 30 s
    evts,         \* every 'attendanceRecord' event, in emission order, with the
                  \* progress of the listener of AttendanceController
    stored,       \* the rows of attendance_records, in insertion order
    short,        \* the inbound chunks shorter than the header: number and socket
    clients,      \* RealtimeService.clients: the registered WebSockets
    readyState,   \* WebSocket.readyState of every browser connection
    inbox,        \* per WebSocket: the messages handed to its send()
    npub,         \* calls of RealtimeService.broadcast so far
    pubs,         \* the messages passed to RealtimeService.broadcast, in order
    pruned,       \* the WebSockets a broadcast has deleted from the client set
    slow          \* browser connections that have stopped reading

ingestVars == <<now, evts, stored, short>>
hubVars == <<clients, readyState, inbox, npub, pubs, pruned, slow>>
vars == <<phase, initNext, initSock, devices, isConnected, connections, sock,
          cmds, answered, nframes, attendance, sinceDrop, ingestVars, hubVars>>

SockIds == 1..Len(sock)
CmdIds == 1..Len(cmds)

\* a Session: a socket that is open with the data/close handlers attached
Live(s) == sock[s].st = "open" /\ sock[s].handlers
LiveSessions(d) == {s \in SockIds : sock[s].dev = d /\ Live(s)}
Connecting(d) == {s \in SockIds : sock[s].dev = d /\ sock[s].st = "connecting"}
\* reconnect timers of setupSocketHandlers' close handler that have not fired
PendingTimers(d) == {s \in SockIds : sock[s].dev = d /\ sock[s].retry = "pending"}
\* connect attempts started by a reconnect timer that have not ended
RunningReconnects(d) == {s \in Connecting(d) : sock[s].origin = "timer"}

Init ==
    /\ phase = "init"
    /\ initNext = 1
    /\ initSock = 0
    /\ devices = {}
    /\ isConnected = [d \in DeviceIds |-> FALSE]
    /\ connections = [d \in DeviceIds |-> 0]
    /\ sock = <<>>
    /\ cmds = <<>>
    /\ answered = {}
    /\ nframes = 0
    /\ attendance = 0
    /\ sinceDrop = [d \in DeviceIds |-> -1]
    /\ now = 0
    /\ evts = <<>>
    /\ stored = <<>>
    /\ short = {}
    /\ clients = {}
    /\ readyState = [c \in ClientIds |-> "NONE"]
    /\ inbox = [c \in ClientIds |-> <<>>]
    /\ npub = 0
    /\ pubs = <<>>
    /\ pruned = {}
    /\ slow = {}

\* ------------------------------------------------------- realtime hub
\* a RealtimeMessage: id is the number of the broadcast call that carries it
\* (0 for the greeting of addClient), ev the attendance event it reports or,
\* for the system stats, the client count they carry
Message(id, type, ev) == [id |-> id, type |-> type, ev |-> ev]

\* broadcast without the readyState test: send() to every registered client
broadcastUnchecked(type, ev) ==
    /\ npub' = npub + 1
    /\ inbox' = [c \in ClientIds |->
                    IF c \in clients
                    THEN Append(inbox[c], Message(npub + 1, type, ev))
                    ELSE inbox[c]]
    /\ clients' = clients
    /\ pubs' = Append(pubs, Message(npub + 1, type, ev))
    /\ pruned' = pruned

\* RealtimeService.broadcast: every registered client that is OPEN gets the
\* message through send(), every other registered client is deleted
broadcast(type, ev) ==
    /\ npub' = npub + 1
    /\ inbox' = [c \in ClientIds |->
                    IF c \in clients /\ readyState[c] = "OPEN"
                    THEN Append(inbox[c], Message(npub + 1, type, ev))
                    ELSE inbox[c]]
    /\ clients' = {c \in clients : readyState[c] = "OPEN"}
    /\ pubs' = Append(pubs, Message(npub + 1, type, ev))
    /\ pruned' = pruned \cup {c \in clients : readyState[c] # "OPEN"}

\* new net.Socket() + setTimeout + connect + the error/timeout handlers of
\* connectToDevice: the socket starts connecting, nothing else changes yet
NewSocket(d, origin) ==
    [dev |-> d, st |-> "connecting", handlers |-> FALSE, origin |-> origin,
     cause |-> "none", retry |-> "none", ev |-> {}]

connectToDevice(sk, d, origin) == Append(sk, NewSocket(d, origin))

\* ------------------------------------------------------------ start-up
\* addDevice: devices.set(id, {isConnected: false}) then connectToDevice
addDevice(d, origin) ==
    /\ devices' = devices \cup {d}
    /\ isConnected' = [isConnected EXCEPT ![d] = FALSE]
    /\ sock' = connectToDevice(sock, d, origin)

\* startServer -> zkService.initialize(): the first addDevice of the loop;
\* initialize() then awaits that device's connect promise
initialize ==
    /\ phase = "init" /\ initNext = 1 /\ initSock = 0
    /\ addDevice(defaultDevices[1], "init")
    /\ initSock' = Len(sock) + 1
    /\ initNext' = 2
    /\ UNCHANGED <<phase, connections, cmds, answered, nframes, attendance, sinceDrop>>
    /\ UNCHANGED <<ingestVars, hubVars>>

\* ------------------------------------------------ HTTP handlers (running)
\* POST /api/devices: 409 when the id exists, else zkService.addDevice
addDeviceHttp(d) ==
    /\ phase = "running"
    /\ d \notin devices
    /\ Len(sock) < MaxSockets
    /\ addDevice(d, "add")
    /\ UNCHANGED <<phase, initNext, initSock, connections, cmds, answered,
                   nframes, attendance, sinceDrop>>
    /\ UNCHANGED <<ingestVars, hubVars>>

\* POST /api/devices/:id/connect: 404 when unknown, "already connected" when
\* the flag is set, else zkService.connectToDevice
connectDevice(d) ==
    /\ phase = "running"
    /\ d \in devices
    /\ ~isConnected[d]
    /\ Len(sock) < MaxSockets
    /\ sock' = connectToDevice(sock, d, "manual")
    /\ UNCHANGED <<phase, initNext, initSock, devices, isConnected, connections,
                   cmds, answered, nframes, attendance, sinceDrop>>
    /\ UNCHANGED <<ingestVars, hubVars>>

\* socket.destroy(): an open socket is torn down, its 'close' event is
\* emitted later; destroying a destroyed socket does nothing
Destroy(sk, S, why) ==
    [s \in DOMAIN sk |->
        IF s \in S /\ sk[s].st = "open"
        THEN [sk[s] EXCEPT !.st = "destroyed", !.cause = why]
        ELSE sk[s]]

\* ZKTecoService.disconnect(deviceId), from POST /api/devices/:id/disconnect
disconnect(d) ==
    /\ phase = "running"
    /\ d \in devices
    /\ sock' = IF connections[d] # 0
               THEN Destroy(sock, {connections[d]}, "disconnect")
               ELSE sock
    /\ UNCHANGED <<phase, initNext, initSock, devices, isConnected, connections,
                   cmds, answered, nframes, attendance, sinceDrop>>
    /\ UNCHANGED <<ingestVars, hubVars>>

\* DELETE /api/devices/:id: 404 when unknown, disconnect(deviceId) when the
\* flag is set; the device stays in the device map
removeDevice(d) ==
    /\ phase = "running"
    /\ d \in devices
    /\ isConnected[d]
    /\ sock' = IF connections[d] # 0
               THEN Destroy(sock, {connections[d]}, "remove")
               ELSE sock
    /\ UNCHANGED <<phase, initNext, initSock, devices, isConnected, connections,
                   cmds, answered, nframes, attendance, sinceDrop>>
    /\ UNCHANGED <<ingestVars, hubVars>>

\* ZKTecoService.disconnect() without an id: every socket of the map
disconnectAll ==
    /\ phase = "running"
    /\ sock' = Destroy(sock, {connections[d] : d \in DeviceIds} \ {0}, "disconnect")
    /\ UNCHANGED <<phase, initNext, initSock, devices, isConnected, connections,
                   cmds, answered, nframes, attendance, sinceDrop>>
    /\ UNCHANGED <<ingestVars, hubVars>>

\* ------------------------------------------------- socket event handlers
\* the connect callback of connectToDevice: flag, lastSeen, connections.set,
\* setupSocketHandlers, emit('deviceConnected'), resolve(true).  When
\* initialize() awaits this socket its loop goes on in the same turn: it adds
\* the next configured device, or finishes and startServer starts listening.
OnConnect(s) ==
    LET d == sock[s].dev
        opened == [sock EXCEPT ![s] = [@ EXCEPT !.st = "open", !.handlers = TRUE,
                                                !.ev = @ \cup {"deviceConnected"}]]
        more == s = initSock /\ initNext <= Len(defaultDevices)
    IN  /\ phase # "exited"
        /\ s \in SockIds /\ sock[s].st = "connecting"
        /\ connections' = [connections EXCEPT ![d] = s]
        /\ sinceDrop' = [sinceDrop EXCEPT ![d] = IF @ >= 0 THEN @ + 1 ELSE @]
        /\ IF more
           THEN /\ devices' = devices \cup {defaultDevices[initNext]}
                /\ isConnected' = [isConnected EXCEPT ![d] = TRUE,
                                                      ![defaultDevices[initNext]] = FALSE]
                /\ sock' = connectToDevice(opened, defaultDevices[initNext], "init")
                /\ initSock' = Len(sock) + 1
                /\ initNext' = initNext + 1
                /\ phase' = phase
           ELSE /\ devices' = devices
                /\ isConnected' = [isConnected EXCEPT ![d] = TRUE]
                /\ sock' = opened
                /\ initSock' = IF s = initSock THEN 0 ELSE initSock
                /\ initNext' = initNext
                /\ phase' = IF s = initSock THEN "running" ELSE phase
        /\ UNCHANGED <<cmds, answered, nframes, attendance>>
        /\ broadcast("device_status", 0)
        /\ UNCHANGED <<ingestVars, readyState, slow>>

\* a rejected connect promise: initialize() throws into startServer's catch,
\* which calls process.exit(1); every other caller catches the rejection
Rejected(s) ==
    /\ phase' = IF s = initSock THEN "exited" ELSE phase
    /\ initSock' = IF s = initSock THEN 0 ELSE initSock
    /\ initNext' = initNext

\* how a socket ends: a socket that never connected has no 'close' listener,
\* a connected one is destroyed and its 'close' event is still to come
TornDown(s, why) ==
    [sock[s] EXCEPT !.st = IF sock[s].handlers THEN "destroyed" ELSE "closed",
                    !.cause = why]

\* socket 'error' (refused, unreachable, reset): flag off, emit('deviceError'),
\* reject; node destroys the socket after an 'error'
OnError(s) ==
    /\ phase # "exited"
    /\ s \in SockIds /\ sock[s].st \in {"connecting", "open"}
    /\ isConnected' = [isConnected EXCEPT ![sock[s].dev] = FALSE]
    /\ sock' = [sock EXCEPT ![s] = [TornDown(s, "error") EXCEPT
                                       !.ev = @ \cup {"deviceError"}]]
    /\ Rejected(s)
    /\ UNCHANGED <<devices, connections, cmds, answered, nframes, attendance, sinceDrop>>
    /\ broadcast("device_status", 0)
    /\ UNCHANGED <<ingestVars, readyState, slow>>

\* socket 'timeout' (5 s without traffic, while connecting or when open):
\* socket.destroy(), flag off, reject
OnTimeout(s) ==
    /\ phase # "exited"
    /\ s \in SockIds /\ sock[s].st \in {"connecting", "open"}
    /\ isConnected' = [isConnected EXCEPT ![sock[s].dev] = FALSE]
    /\ sock' = [sock EXCEPT ![s] = TornDown(s, "timeout")]
    /\ Rejected(s)
    /\ UNCHANGED <<devices, connections, cmds, answered, nframes, attendance, sinceDrop>>
    /\ UNCHANGED <<ingestVars, hubVars>>

\* the device or the network ends an open connection; no handler of the
\* service runs until the 'close' event
OnEnd(s) ==
    /\ phase # "exited"
    /\ s \in SockIds /\ sock[s].st = "open"
    /\ sock' = [sock EXCEPT ![s] = TornDown(s, "peer")]
    /\ UNCHANGED <<phase, initNext, initSock, devices, isConnected, connections,
                   cmds, answered, nframes, attendance, sinceDrop>>
    /\ UNCHANGED <<ingestVars, hubVars>>

\* the 'close' handler of setupSocketHandlers: flag off, connections.delete,
\* emit('deviceDisconnected'), setTimeout(reconnect, 5000)
OnClose(s) ==
    LET d == sock[s].dev
    IN  /\ phase # "exited"
        /\ s \in SockIds /\ sock[s].st = "destroyed"
        /\ isConnected' = [isConnected EXCEPT ![d] = FALSE]
        /\ connections' = [connections EXCEPT ![d] = 0]
        /\ sock' = [sock EXCEPT ![s] = [@ EXCEPT !.st = "closed", !.retry = "pending",
                                                 !.ev = @ \cup {"deviceDisconnected"}]]
        /\ sinceDrop' = [sinceDrop EXCEPT ![d] =
                            IF sock[s].cause = "disconnect" THEN @ ELSE 0]
        /\ UNCHANGED <<phase, initNext, initSock, devices, cmds, answered,
                       nframes, attendance>>
        /\ broadcast("device_status", 0)
        /\ UNCHANGED <<ingestVars, readyState, slow>>

\* the reconnect timer of the 'close' handler fires: connectToDevice(deviceId)
ReconnectTimer(s) ==
    /\ phase # "exited"
    /\ s \in SockIds /\ sock[s].retry = "pending"
    /\ Len(sock) < MaxSockets
    /\ sock' = connectToDevice([sock EXCEPT ![s] = [@ EXCEPT !.retry = "fired"]],
                               sock[s].dev, "timer")
    /\ UNCHANGED <<phase, initNext, initSock, devices, isConnected, connections,
                   cmds, answered, nframes, attendance, sinceDrop>>
    /\ UNCHANGED <<ingestVars, hubVars>>

\* ------------------------------------------------------------- commands
\* sendCommand(deviceId, command): throws when the map has no socket, else
\* arms the 5 s timer, adds a once('data') listener and writes the command.
\* live records whether the device had a Session when the call was made,
\* stale the commands of the same socket that had already timed out.
NewCommand(d) ==
    LET s == connections[d]
    IN  IF s = 0
        THEN [dev |-> d, sock |-> 0, st |-> "notConnected", listening |-> FALSE,
              written |-> FALSE, resp |-> -1, live |-> LiveSessions(d) # {},
              stale |-> {}, log |-> {}]
        ELSE [dev |-> d, sock |-> s, st |-> "pending", listening |-> TRUE,
              written |-> sock[s].st = "open", resp |-> -1,
              live |-> LiveSessions(d) # {},
              stale |-> {c \in CmdIds : cmds[c].sock = s /\ cmds[c].st = "timeout"},
              log |-> {}]

\* a request whose handler checks device.isConnected and then sends a command
\* (getDeviceInfo, syncDevice, sync attendance, enroll, delete user)
sendCommand(d) ==
    /\ phase = "running"
    /\ d \in devices
    /\ isConnected[d]
    /\ Len(cmds) < MaxCmds
    /\ cmds' = Append(cmds, NewCommand(d))
    /\ UNCHANGED <<phase, initNext, initSock, devices, isConnected, connections,
                   sock, answered, nframes, attendance, sinceDrop>>
    /\ UNCHANGED <<ingestVars, hubVars>>

\* the 5 s timer of sendCommand: reject(new Error('Command timeout')); the
\* once('data') listener stays on the socket
CommandTimeout(c) ==
    /\ phase # "exited"
    /\ c \in CmdIds /\ cmds[c].st = "pending"
    /\ cmds' = [cmds EXCEPT ![c] = [@ EXCEPT !.st = "timeout"]]
    /\ UNCHANGED <<phase, initNext, initSock, devices, isConnected, connections,
                   sock, answered, nframes, attendance, sinceDrop>>
    /\ UNCHANGED <<ingestVars, hubVars>>

\* commands written to socket s that the device has not answered yet
Owed(s) == {c \in CmdIds : cmds[c].sock = s /\ cmds[c].written /\ c \notin answered}

\* the attendance records device d has reported so far: what the device
\* holds, and what its answer to getAttendanceRecords carries
DeviceLog(d) == {e \in DOMAIN evts : evts[e].dev = d}

\* parseAttendanceRecords: the parsing is left out, the result is always []
parseAttendanceRecords(log) == <<>>

\* every once('data') listener of socket s receives the chunk: clearTimeout and
\* resolve(response); resolve has no effect on a promise already rejected
Deliver(s, re) ==
    [c \in CmdIds |->
        IF cmds[c].sock = s /\ cmds[c].listening
        THEN [cmds[c] EXCEPT !.listening = FALSE,
                             !.st = IF @ = "pending" THEN "resolved" ELSE @,
                             !.resp = IF cmds[c].st = "pending" THEN re ELSE @,
                             !.log = IF cmds[c].st = "pending"
                                     THEN DeviceLog(sock[s].dev) ELSE @]
        ELSE cmds[c]]

\* parseZKData without the length test
parseZKDataUnchecked(len) == "attendance"

\* parseZKData throws below the 8 byte header, else reports 'attendance'
parseZKData(len) == IF len < HeaderLen THEN "throw" ELSE "attendance"

\* handleDeviceData: emit('attendanceRecord') unless the parser threw
handleDeviceData(len) ==
    IF parseZKData(len) = "attendance" THEN attendance + 1 ELSE attendance

\* new Date().getHours() at tick t: the clock starts half a minute before noon
getHours(t) == IF t = 0 THEN 11 ELSE 12

\* determineAttendanceType: by the hour of the server's clock
determineAttendanceType(hour) ==
    IF hour < 12 THEN "check-in"
    ELSE IF hour > 17 THEN "check-out"
    ELSE "break-start"

\* the record handleDeviceData builds (userId and timestamp from the parser,
\* which reports the mock user and new Date(); type from
\* determineAttendanceType) and the listener of AttendanceController that
\* starts on it: getEmployee is issued, nothing is persisted or broadcast yet.
\* stamp is the time the device wrote into the chunk, which the parser does
\* not read.
NewEvent(s, stamp) ==
    [dev |-> sock[s].dev, sock |-> s, frame |-> nframes + 1, user |-> MockUserId,
     stamp |-> stamp, ts |-> now, type |-> determineAttendanceType(getHours(now)),
     st |-> "lookup", bc |-> 0, aud |-> {}]

\* this.emit('attendanceRecord', record) of handleDeviceData
attendanceRecord(s, len, stamp) ==
    IF parseZKData(len) = "attendance"
    THEN Append(evts, NewEvent(s, stamp))
    ELSE evts

\* socket 'data' on a connected socket: the handler of setupSocketHandlers
\* (handleDeviceData) and every once('data') listener of sendCommand run on the
\* same chunk.  re = 0 is an unsolicited notification, re = c the device's
\* response to command c.  A caller resumed by the chunk may send its next
\* command in the same turn (next template of enrollUser, getDeviceInfo of
\* syncDevice): follow.
OnData(s, re, len, follow) ==
    LET d == sock[s].dev
        resumed == {c \in CmdIds : cmds[c].sock = s /\ cmds[c].listening
                                      /\ cmds[c].st = "pending"}
        delivered == Deliver(s, re)
    IN  /\ phase # "exited"
        /\ s \in SockIds /\ Live(s)
        /\ nframes < MaxFrames
        /\ re \in Owed(s) \cup {0}
        /\ follow => (resumed # {} /\ Len(cmds) < MaxCmds)
        /\ nframes' = nframes + 1
        /\ answered' = IF re = 0 THEN answered ELSE answered \cup {re}
        /\ attendance' = handleDeviceData(len)
        /\ cmds' = IF follow THEN Append(delivered, NewCommand(d)) ELSE delivered
        /\ UNCHANGED <<phase, initNext, initSock, devices, isConnected, connections,
                       sock, sinceDrop>>
        /\ \E stamp \in 0..now : evts' = attendanceRecord(s, len, stamp)
        /\ short' = IF len < HeaderLen
                     THEN short \cup {[frame |-> nframes + 1, sock |-> s]}
                     ELSE short
        /\ stored' = IF resumed # {}
                      THEN stored \o parseAttendanceRecords(DeviceLog(d))
                      ELSE stored
        /\ UNCHANGED <<now, hubVars>>

\* ------------------------------------------------------------ ingestion
\* the clock advances by one tick
Tick ==
    /\ now < MaxTime
    /\ now' = now + 1
    /\ UNCHANGED <<phase, initNext, initSock, devices, isConnected, connections,
                   sock, cmds, answered, nframes, attendance, sinceDrop,
                   evts, stored, short, hubVars>>

\* the listener broadcasting the row it has built before the INSERT is awaited
LookupDoneBroadcast(e) ==
    /\ phase # "exited"
    /\ e \in DOMAIN evts /\ evts[e].st = "lookup"
    /\ evts' = [evts EXCEPT ![e] = [@ EXCEPT !.st = "insert", !.bc = @ + 1]]
    /\ broadcast("attendance", e)
    /\ UNCHANGED <<phase, initNext, initSock, devices, isConnected, connections,
                   sock, cmds, answered, nframes, attendance, sinceDrop,
                   now, stored, short, readyState, slow>>

\* await getEmployee(...) resolves: the listener builds the row and issues
\* createAttendanceRecord.  The database runs the statements of different
\* events concurrently, so the lookups end in any order.
LookupDone(e) ==
    /\ phase # "exited"
    /\ e \in DOMAIN evts /\ evts[e].st = "lookup"
    /\ evts' = [evts EXCEPT ![e] = [@ EXCEPT !.st = "insert"]]
    /\ UNCHANGED <<phase, initNext, initSock, devices, isConnected, connections,
                   sock, cmds, answered, nframes, attendance, sinceDrop,
                   now, stored, short, hubVars>>

\* the catch block of the listener: console.error, nothing else
Caught(e) == [evts EXCEPT ![e] = [@ EXCEPT !.st = "failed"]]

\* await getEmployee(...) rejects
LookupFail(e) ==
    /\ phase # "exited"
    /\ e \in DOMAIN evts /\ evts[e].st = "lookup"
    /\ evts' = Caught(e)
    /\ UNCHANGED <<phase, initNext, initSock, devices, isConnected, connections,
                   sock, cmds, answered, nframes, attendance, sinceDrop,
                   now, stored, short, hubVars>>

\* clients that are registered and open: the audience of a broadcast
Audience == {c \in clients : readyState[c] = "OPEN"}

\* createAttendanceRecord running its INSERT twice
createAttendanceRecordTwice(rows, e) == Append(Append(rows, e), e)

\* createAttendanceRecord: INSERT INTO attendance_records under a fresh id
createAttendanceRecord(rows, e) == Append(rows, e)

\* await createAttendanceRecord(...) resolves: the row is in the table and the
\* listener calls broadcastAttendanceRecord
InsertDone(e) ==
    /\ phase # "exited"
    /\ e \in DOMAIN evts /\ evts[e].st = "insert"
    /\ stored' = createAttendanceRecord(stored, e)
    /\ evts' = [evts EXCEPT ![e] = [@ EXCEPT !.st = "done", !.bc = @ + 1,
                                             !.aud = Audience]]
    /\ broadcast("attendance", e)
    /\ UNCHANGED <<phase, initNext, initSock, devices, isConnected, connections,
                   sock, cmds, answered, nframes, attendance, sinceDrop,
                   now, short, readyState, slow>>

\* await createAttendanceRecord(...) rejects
InsertFail(e) ==
    /\ phase # "exited"
    /\ e \in DOMAIN evts /\ evts[e].st = "insert"
    /\ evts' = Caught(e)
    /\ UNCHANGED <<phase, initNext, initSock, devices, isConnected, connections,
                   sock, cmds, answered, nframes, attendance, sinceDrop,
                   now, stored, short, hubVars>>

\* ---------------------------------------------------------- subscribers
\* wss.on('connection'): addClient registers the socket and greets it
addClient(c) ==
    /\ phase = "running"
    /\ readyState[c] = "NONE"
    /\ readyState' = [readyState EXCEPT ![c] = "OPEN"]
    /\ clients' = clients \cup {c}
    /\ inbox' = [inbox EXCEPT ![c] = Append(@, Message(0, "system_alert", 0))]
    /\ UNCHANGED <<phase, initNext, initSock, devices, isConnected, connections,
                   sock, cmds, answered, nframes, attendance, sinceDrop,
                   ingestVars, npub, pubs, pruned, slow>>

\* the browser closes or its connection breaks: readyState leaves OPEN, the
\* 'close' event of the WebSocket is still to come
WsClosing(c) ==
    /\ phase # "exited"
    /\ readyState[c] = "OPEN"
    /\ readyState' = [readyState EXCEPT ![c] = "CLOSING"]
    /\ UNCHANGED <<phase, initNext, initSock, devices, isConnected, connections,
                   sock, cmds, answered, nframes, attendance, sinceDrop,
                   ingestVars, clients, inbox, npub, pubs, pruned, slow>>

\* removeClient emptying the client set
removeClientClear(c) ==
    /\ phase # "exited"
    /\ readyState[c] = "CLOSING"
    /\ readyState' = [readyState EXCEPT ![c] = "CLOSED"]
    /\ clients' = {}
    /\ UNCHANGED <<phase, initNext, initSock, devices, isConnected, connections,
                   sock, cmds, answered, nframes, attendance, sinceDrop,
                   ingestVars, inbox, npub, pubs, pruned, slow>>

\* ws.on('close'): removeClient
removeClient(c) ==
    /\ phase # "exited"
    /\ readyState[c] = "CLOSING"
    /\ readyState' = [readyState EXCEPT ![c] = "CLOSED"]
    /\ clients' = clients \ {c}
    /\ UNCHANGED <<phase, initNext, initSock, devices, isConnected, connections,
                   sock, cmds, answered, nframes, attendance, sinceDrop,
                   ingestVars, inbox, npub, pubs, pruned, slow>>

\* an open browser connection stops reading: send() still accepts messages
\* and buffers them
WsStall(c) ==
    /\ phase # "exited"
    /\ readyState[c] = "OPEN" /\ c \notin slow
    /\ slow' = slow \cup {c}
    /\ UNCHANGED <<phase, initNext, initSock, devices, isConnected, connections,
                   sock, cmds, answered, nframes, attendance, sinceDrop,
                   ingestVars, clients, readyState, inbox, npub, pubs, pruned>>

\* broadcasts of one message type made so far
Published(type) == {i \in DOMAIN pubs : pubs[i].type = type}

\* the interval callback skipping the stats while no client is registered
MonitorIfClients ==
    /\ phase = "running"
    /\ clients # {}
    /\ Cardinality(Published("system_alert")) < MaxPubs
    /\ broadcast("system_alert", Cardinality(clients))
    /\ UNCHANGED <<phase, initNext, initSock, devices, isConnected, connections,
                   sock, cmds, answered, nframes, attendance, sinceDrop,
                   ingestVars, readyState, slow>>

\* the setInterval callback of startMonitoring: broadcast the system stats,
\* connectedClients being clients.size
Monitor ==
    /\ phase = "running"
    /\ Cardinality(Published("system_alert")) < MaxPubs
    /\ broadcast("system_alert", Cardinality(clients))
    /\ UNCHANGED <<phase, initNext, initSock, devices, isConnected, connections,
                   sock, cmds, answered, nframes, attendance, sinceDrop,
                   ingestVars, readyState, slow>>

\* an employee request that ends in broadcastEmployeeUpdate
broadcastEmployeeUpdate ==
    /\ phase = "running"
    /\ Cardinality(Published("employee_update")) < MaxUpdates
    /\ broadcast("employee_update", 0)
    /\ UNCHANGED <<phase, initNext, initSock, devices, isConnected, connections,
                   sock, cmds, answered, nframes, attendance, sinceDrop,
                   ingestVars, readyState, slow>>

\* ------------------------------------------------------------------ Next
\* Registry: the connection lifecycle of every device.  No command or data
\* action reads or writes the device map, the connection map or a socket, so
\* the lifecycle is checked without them.
Next ==
    \/ initialize
    \/ \E d \in DeviceIds : addDeviceHttp(d)
    \/ \E d \in DeviceIds : connectDevice(d)
    \/ \E d \in DeviceIds : disconnect(d)
    \/ \E d \in DeviceIds : removeDevice(d)
    \/ disconnectAll
    \/ \E s \in SockIds : OnConnect(s)
    \/ \E s \in SockIds : OnError(s)
    \/ \E s \in SockIds : OnTimeout(s)
    \/ \E s \in SockIds : OnEnd(s)
    \/ \E s \in SockIds : OnClose(s)
    \/ \E s \in SockIds : ReconnectTimer(s)

Spec == Init /\ [][Next]_vars

\* Sessions: commands and inbound data on the sessions opened at start-up, up
\* to and including their loss.  Every behaviour of CmdSpec is a behaviour of
\* the server in which no reconnect timer has fired yet.
CmdNext ==
    \/ initialize
    \/ \E d \in DeviceIds : disconnect(d)
    \/ \E d \in DeviceIds : sendCommand(d)
    \/ \E s \in SockIds : OnConnect(s)
    \/ \E s \in SockIds : OnError(s)
    \/ \E s \in SockIds : OnTimeout(s)
    \/ \E s \in SockIds : OnEnd(s)
    \/ \E s \in SockIds : OnClose(s)
    \/ \E c \in CmdIds : CommandTimeout(c)
    \/ \E s \in SockIds, re \in 0..MaxCmds, len \in FrameLens, follow \in BOOLEAN :
          OnData(s, re, len, follow)

CmdSpec == Init /\ [][CmdNext]_vars

\* Ingestion: notifications on the sessions opened at start-up, the listener
\* that persists and broadcasts them, and the browser connections that
\* receive the broadcasts.  Every behaviour of IngestSpec is a behaviour of
\* the server in which the configured devices connect and stay connected.
IngestNext ==
    \/ initialize
    \/ \E s \in SockIds : OnConnect(s)
    \/ \E s \in SockIds, len \in FrameLens : OnData(s, 0, len, FALSE)
    \/ \E e \in DOMAIN evts : LookupDone(e)
    \/ \E e \in DOMAIN evts : LookupFail(e)
    \/ \E e \in DOMAIN evts : InsertDone(e)
    \/ \E e \in DOMAIN evts : InsertFail(e)
    \/ \E c \in ClientIds : addClient(c)
    \/ \E c \in ClientIds : WsClosing(c)
    \/ \E c \in ClientIds : removeClient(c)

IngestSpec == Init /\ [][IngestNext]_vars

\* Resync: commands and their responses next to live notifications, the
\* clock that stamps the notifications, and the listener that persists them.
SyncNext ==
    \/ initialize
    \/ \E s \in SockIds : OnConnect(s)
    \/ \E s \in SockIds : OnError(s)
    \/ \E d \in DeviceIds : sendCommand(d)
    \/ \E s \in SockIds, re \in 0..MaxCmds, len \in FrameLens :
          OnData(s, re, len, FALSE)
    \/ Tick
    \/ \E e \in DOMAIN evts : LookupDone(e)
    \/ \E e \in DOMAIN evts : LookupFail(e)
    \/ \E e \in DOMAIN evts : InsertDone(e)
    \/ \E e \in DOMAIN evts : InsertFail(e)

SyncSpec == Init /\ [][SyncNext]_vars

\* Hub: the browser connections, the monitor and the employee requests that
\* publish, on a server whose devices stay connected.
HubNext ==
    \/ initialize
    \/ \E s \in SockIds : OnConnect(s)
    \/ \E c \in ClientIds : addClient(c)
    \/ \E c \in ClientIds : WsClosing(c)
    \/ \E c \in ClientIds : removeClient(c)
    \/ Monitor
    \/ broadcastEmployeeUpdate

HubSpec == Init /\ [][HubNext]_vars

\* the interval timer of startMonitoring keeps firing while the server runs,
\* and the event loop delivers every 'close' event of a WebSocket
HubFairness ==
    WF_vars(Monitor) /\ \A c \in ClientIds : WF_vars(removeClient(c))

\* Beat: the monitor next to the browser connections that come and go.
BeatNext ==
    \/ initialize
    \/ \E s \in SockIds : OnConnect(s)
    \/ \E c \in ClientIds : addClient(c)
    \/ \E c \in ClientIds : WsClosing(c)
    \/ \E c \in ClientIds : removeClient(c)
    \/ Monitor

BeatSpec == Init /\ [][BeatNext]_vars /\ HubFairness

\* Stall: the hub with device failures that publish a device status and with
\* browser connections that stop reading.
StallNext ==
    \/ HubNext
    \/ \E s \in SockIds : OnError(s)
    \/ \E c \in ClientIds : WsStall(c)

StallSpec == Init /\ [][StallNext]_vars /\ HubFairness

\* =============================================================== claims
Unexpected(s) == sock[s].cause \in {"error", "timeout", "peer"}

\* C1: at any instant at most one live Session (an open socket with its
\* data/close handlers attached) exists for a device.
C1_AtMostOneLiveSession ==
    \A d \in DeviceIds : Cardinality(LiveSessions(d)) <= 1

\* C2: connect attempts for one device are coalesced: while a connect for the
\* device is in progress no second socket is opened for it.
C2_ConnectCoalesced ==
    \A d \in DeviceIds : Cardinality(Connecting(d)) <= 1

\* C3: an explicit disconnect does not trigger the reconnect policy: the
\* session it closed never gets a reconnect scheduled.
C3_NoReconnectAfterDisconnect ==
    \A s \in SockIds : sock[s].cause = "disconnect" => sock[s].retry = "none"

\* C4: an unexpected disconnect schedules exactly one reconnect attempt: the
\* lost session has its attempt scheduled (never zero), and a device never has
\* two reconnect attempts pending or running at the same time.
C4_ExactlyOneReconnect ==
    /\ \A s \in SockIds :
          (sock[s].st = "closed" /\ sock[s].handlers /\ Unexpected(s))
              => sock[s].retry # "none"
    /\ \A d \in DeviceIds :
          Cardinality({s \in PendingTimers(d) : Unexpected(s)})
              + Cardinality(RunningReconnects(d)) <= 1

\* C5: after an unexpected disconnect reconnect attempts repeat until the
\* device connects: while the device has not reconnected, a reconnect attempt is
\* pending or running, so that an endpoint that accepts again is reached.
C5_RetryUntilConnected ==
    \A d \in devices :
        (phase # "exited" /\ sinceDrop[d] = 0 /\ ~isConnected[d])
            => (PendingTimers(d) # {} \/ Connecting(d) # {})

\* C6: after the connection dropped, recovery emits exactly one
\* deviceConnected, also when a manual connect races with the reconnect timer:
\* never a second deviceConnected without a drop in between.
C6_OneConnectedPerRecovery ==
    \A d \in DeviceIds : sinceDrop[d] <= 1

\* C7: while the server runs, every connect attempt that ended either
\* installed a Session and emitted deviceConnected, or failed (refused,
\* unreachable or timed out) and emitted deviceError.
C7_ConnectOutcome ==
    phase # "exited" =>
        \A s \in SockIds :
            /\ sock[s].handlers => "deviceConnected" \in sock[s].ev
            /\ (sock[s].st = "closed" /\ ~sock[s].handlers)
                  => ("deviceError" \in sock[s].ev
                         /\ "deviceConnected" \notin sock[s].ev)

\* C8: a command dispatched to a device without a live Session fails with
\* DeviceNotConnected and is written to no socket.
C8_NotConnectedWithoutSession ==
    \A c \in CmdIds :
        ~cmds[c].live => (cmds[c].st = "notConnected" /\ cmds[c].sock = 0)

\* C9: with several commands pending on a Session, no response is delivered
\* to the wrong caller or to more than one caller: a caller resumed by the
\* response to a command was resumed by the response to its own command.
C9_OwnResponse ==
    \A c \in CmdIds :
        (cmds[c].st = "resolved" /\ cmds[c].resp # 0) => cmds[c].resp = c

\* C10: a command issued after another command of the Session timed out is
\* not completed by the late response of the timed-out command.
C10_NoLateResponse ==
    \A c \in CmdIds : cmds[c].st = "resolved" => cmds[c].resp \notin cmds[c].stale

\* C11: closing a Session fails every command still pending on it: once the
\* 'close' handler of a socket has run (deviceDisconnected emitted), no command
\* sent on that socket is still pending.
C11_CloseFailsPending ==
    \A c \in CmdIds :
        (cmds[c].sock # 0 /\ sock[cmds[c].sock].st = "closed")
            => (cmds[c].st # "pending"
                  /\ "deviceDisconnected" \in sock[cmds[c].sock].ev)

\* rows of the table that came from event e
Rows(e) == {i \in DOMAIN stored : stored[i] = e}
\* attendance messages for event e handed to client c
Delivered(c, e) ==
    {i \in DOMAIN inbox[c] : inbox[c][i].type = "attendance" /\ inbox[c][i].ev = e}
\* messages of broadcast number n handed to client c
Copies(inb, c, n) == {i \in DOMAIN inb[c] : inb[c][i].id = n}
\* two events the dedupe rule treats as one: same subject, same device,
\* timestamps less than 60 s (two ticks of the clock) apart
Duplicate(e1, e2) ==
    /\ evts[e1].user = evts[e2].user
    /\ evts[e1].dev = evts[e2].dev
    /\ evts[e1].ts - evts[e2].ts < 2
    /\ evts[e2].ts - evts[e1].ts < 2

\* C12: of the notifications with the same subject and device and timestamps
\* within the dedupe window, live ingestion persists exactly one: no two rows
\* of the table are duplicates of each other.
C12_OnePerDedupeWindow ==
    \A i, j \in DOMAIN stored :
        i < j => ~Duplicate(stored[i], stored[j])

\* C13: every valid notification received on a live Session gives exactly one
\* event; an event whose persistence succeeded has exactly one row, was
\* broadcast once, and that broadcast reached every client registered and open
\* at that moment exactly once and no other client; no event has two rows.
C13_OncePersistedOnceBroadcast ==
    /\ \A f \in 1..nframes :
          Cardinality({e \in DOMAIN evts : evts[e].frame = f})
              = IF \E k \in short : k.frame = f THEN 0 ELSE 1
    /\ \A e \in DOMAIN evts :
          /\ Cardinality(Rows(e)) <= 1
          /\ evts[e].st = "done" =>
                /\ Cardinality(Rows(e)) = 1
                /\ evts[e].bc = 1
                /\ \A c \in ClientIds :
                      Cardinality(Delivered(c, e))
                          = IF c \in evts[e].aud THEN 1 ELSE 0

C13_Witness ==
    \E e \in DOMAIN evts :
        /\ evts[e].st = "done"
        /\ Cardinality(evts[e].aud) >= 2
        /\ \A c \in evts[e].aud : Cardinality(Delivered(c, e)) = 1

\* C14: when persisting an event fails, the failure is surfaced as a
\* system_alert: the step in which the listener gives the event up publishes
\* a system_alert to the clients.
C14_FailureSurfaced ==
    [][\A e \in DOMAIN evts :
          (evts[e].st # "failed" /\ evts'[e].st = "failed")
              => /\ npub' = npub + 1
                 /\ \A c \in Audience :
                       inbox'[c][Len(inbox'[c])].type = "system_alert"]_vars

\* C15: the attendance events of one device are persisted in arrival order:
\* of two rows of the same device the earlier row is the earlier event.
C15_PerDeviceFifo ==
    \A i, j \in DOMAIN stored :
        (i < j /\ evts[stored[i]].dev = evts[stored[j]].dev)
            => stored[i] < stored[j]

\* C16: a resync runs every record the device holds through the persist step
\* with dedupe: once a resync has been answered, every record the device held
\* at that moment whose live processing has ended has exactly one row.
C16_ResyncExactlyOnce ==
    \A c \in CmdIds :
        cmds[c].st = "resolved" =>
            \A e \in cmds[c].log :
                evts[e].st \in {"done", "failed"} => Cardinality(Rows(e)) = 1

\* C17: a chunk shorter than the 8 byte header is dropped: it gives no
\* attendance event and no row and leaves the device map, the flags, the
\* connection map and the sockets as they were; every other chunk, a later
\* one on the same connection included, gives its attendance event.
C17_ShortFrameDropped ==
    [][/\ short' # short =>
             UNCHANGED <<devices, isConnected, connections, sock, evts,
                         attendance, stored, hubVars>>
       /\ (nframes' = nframes + 1 /\ short' = short) =>
             /\ Len(evts') = Len(evts) + 1
             /\ evts'[Len(evts')].frame = nframes']_vars

C17_Witness ==
    \E k \in short : \E e \in DOMAIN evts :
        /\ evts[e].sock = k.sock
        /\ evts[e].frame > k.frame
        /\ Live(k.sock)

\* C18: each publish hands the message exactly once to every client that is
\* registered and open when it is made, and to no other client; a client
\* that has been removed gets nothing.
C18_ExactlyOncePerSubscriber ==
    [][npub' = npub + 1 =>
          \A c \in ClientIds :
              /\ Cardinality(Copies(inbox', c, npub'))
                    = IF c \in clients /\ readyState[c] = "OPEN" THEN 1 ELSE 0
              /\ Len(inbox'[c]) = Len(inbox[c]) + Cardinality(Copies(inbox', c, npub'))]_vars

C18_Witness ==
    /\ npub >= 1
    /\ \E c1, c2 \in ClientIds :
          /\ c1 \in clients /\ Cardinality(Copies(inbox, c1, npub)) = 1
          /\ readyState[c2] \in {"CLOSING", "CLOSED"}
          /\ c2 \notin clients
          /\ inbox[c2] # <<>>
          /\ Copies(inbox, c2, npub) = {}

Beats == Cardinality(Published("system_alert"))

\* C25: removing a subscriber is idempotent and touches no other subscriber:
\* the 'close' handler of a WebSocket leaves the client set without that
\* WebSocket and otherwise as it was, also when a publish has pruned it before.
C25_UnsubscribeIdempotent ==
    [][\A c \in ClientIds :
          (readyState[c] = "CLOSING" /\ readyState'[c] = "CLOSED")
              => /\ clients' = clients \ {c}
                 /\ c \notin clients => clients' = clients]_vars

C25_Witness ==
    \E c, c2 \in ClientIds :
        /\ c \in pruned /\ readyState[c] = "CLOSED"
        /\ c2 \in clients /\ readyState[c2] = "OPEN"
        /\ Len(inbox[c2]) >= 2

\* C26: while the server runs the monitor publishes at every tick, whatever
\* else happens: the next system stats message is always published, and each
\* carries the number of registered clients at that tick.
C26_HeartbeatEveryTick ==
    /\ \A n \in 0..(MaxPubs - 1) :
          (phase = "running" /\ Beats = n) ~> (Beats > n)
    /\ [][Beats' > Beats =>
             pubs'[Len(pubs')]
                 = Message(npub + 1, "system_alert", Cardinality(clients))]_vars

C26_Witness ==
    \E i \in DOMAIN pubs :
        /\ i + 1 \in DOMAIN pubs
        /\ pubs[i].type = "system_alert"
        /\ pubs[i + 1].type = "system_alert"
        /\ pubs[i + 1].ev >= 1
        /\ \E c \in ClientIds : Copies(inbox, c, i + 1) # {}

\* C28: an attendance event is broadcast only after its row is in the table:
\* every attendance broadcast and every attendance message a client got
\* belongs to an event that has a row, and an event whose persistence failed
\* was never broadcast.
C28_BroadcastAfterPersist ==
    /\ \A i \in DOMAIN pubs :
          pubs[i].type = "attendance" => Rows(pubs[i].ev) # {}
    /\ \A e \in DOMAIN evts :
          /\ \A c \in ClientIds : Delivered(c, e) # {} => Rows(e) # {}
          /\ evts[e].st = "failed" =>
                /\ evts[e].bc = 0
                /\ \A c \in ClientIds : Delivered(c, e) = {}

C28_Witness ==
    \E e1, e2 \in DOMAIN evts :
        /\ evts[e1].st = "failed"
        /\ evts[e2].st = "done"
        /\ \E c \in ClientIds : Delivered(c, e2) # {}

\* C20: no failure of a device connection terminates the process, a failed
\* connect of a configured device at start-up included.
C20_ProcessSurvives ==
    phase # "exited"

\* C21: the kind of an attendance event is a function of the notification:
\* two notifications of the same subject and device that carry the same
\* device-reported timestamp get the same kind, whenever they are processed.
C21_KindDeterministic ==
    \A e1, e2 \in DOMAIN evts :
        (evts[e1].user = evts[e2].user /\ evts[e1].dev = evts[e2].dev
           /\ evts[e1].stamp = evts[e2].stamp)
            => evts[e1].type = evts[e2].type

\* C22: a command that gets no response within the command timeout is
\* treated as a closed connection: once a command has timed out, the socket it
\* was sent on is no longer a live Session.
C22_CommandTimeoutFailsClosed ==
    \A c \in CmdIds :
        (cmds[c].st = "timeout" /\ cmds[c].sock # 0) => ~Live(cmds[c].sock)

\* C23: a failing connection of one device never prevents another configured
\* device from being registered: once a connect attempt of a device has failed,
\* every other configured device is registered.
C23_OtherDevicesRegistered ==
    \A s \in SockIds :
        (sock[s].st = "closed" /\ sock[s].cause \in {"error", "timeout"})
            => \A i \in DOMAIN defaultDevices : defaultDevices[i] \in devices

\* C27: a chunk that completes a pending command is never also ingested as an
\* attendance notification: the step that resolves a command emits no
\* attendanceRecord event.
C27_ResponseNotIngested ==
    [][\A c \in CmdIds :
          (cmds[c].st = "pending" /\ cmds'[c].st = "resolved")
              => (evts' = evts /\ attendance' = attendance)]_vars

\* C24: after a device is removed the reconnect of its Session is cancelled:
\* no reconnect timer of a socket closed by the removal fires.
C24_NoReconnectAfterRemove ==
    \A s \in SockIds : sock[s].cause = "remove" => sock[s].retry # "fired"

\* a socket the service has not destroyed and node has not reported closed
NotDestroyed(s) ==
    sock[s].st = "open" \/ (sock[s].st = "destroyed" /\ sock[s].cause = "peer")

\* C29: between event handlers a device's isConnected flag is true exactly
\* when the connection map holds a socket for it that is not destroyed.
C29_FlagIffLiveSocket ==
    \A d \in devices :
        isConnected[d] <=> (connections[d] # 0 /\ NotDestroyed(connections[d]))

\* C30: the close of a socket only unregisters that socket: when the map holds
\* another socket for the device, the 'close' handler of the older socket
\* leaves the map entry and the device's flag as they were.
C30_CloseOnlyOwnSocket ==
    [][\A s \in SockIds :
          (sock[s].st = "destroyed" /\ sock'[s].st = "closed"
             /\ connections[sock[s].dev] \notin {0, s})
              => /\ connections'[sock[s].dev] = connections[sock[s].dev]
                 /\ isConnected'[sock[s].dev] = isConnected[sock[s].dev]]_vars

====
